---------------------------- MODULE Spec2Model ----------------------------
(***************************************************************************)
(* Model of generate_repayment_schedule (src/gjjdkhk.py): the month by     *)
(* month loan simulation with a rate timeline, one-off prepayments and the *)
(* two repayment methods, followed by the finalization of the ledger.      *)
(*                                                                         *)
(* Money is fixed point: one currency unit is Scale model units (seven     *)
(* decimals), every product or quotient the program computes in floating   *)
(* point is rounded to the nearest model unit.  The thresholds of the code *)
(* (0.01, 1e-5) and its roundings (6 and 2 decimals) are all coarser than  *)
(* the model unit, as they are coarser than a float's resolution.  Rates   *)
(* are whole percents, dates are records [y, m, d] at day granularity.     *)
(***************************************************************************)
EXTENDS Integers, Sequences, FiniteSets, TLC

(***************************************************************************)
(* Bounds of the model.                                                    *)
(***************************************************************************)
MaxLoanYears == 1
MaxPrepayments == 2

(***************************************************************************)
(* Fixed-point arithmetic.                                                 *)
(***************************************************************************)
Scale == 10^7
Unit == 10^9

Abs(x) == IF x < 0 THEN -x ELSE x

\* a / c rounded to the nearest integer (c > 0), ties to the even neighbour.
\* (The local function takes a as a value, computed once.)
RoundDiv(a, c) ==
  LET rounded[x \in Int] ==
        LET q == Abs(x) \div c
            r == Abs(x) % c
            up == (2 * r > c) \/ (2 * r = c /\ q % 2 = 1)
            v == IF up THEN q + 1 ELSE q
        IN  IF x < 0 THEN -v ELSE v
  IN  rounded[a]

\* <<quotient, remainder>> of (a * b) by c, without forming a * b
\* (0 <= a, 0 <= b, 0 < c < 2^30): binary multiplication, the halves
\* doubled modulo c.  (The local functions take their arguments as values,
\* so that no operand is computed more than once.)
RECURSIVE MulDivMod(_, _, _)
MulDivMod(a, b, c) ==
  LET double[h \in Int \X Int] ==
        LET q2 == 2 * h[1] + (2 * h[2]) \div c
            r2 == (2 * h[2]) % c
            r3 == r2 + (a % c)
        IN  IF b % 2 = 0 THEN <<q2, r2>>
            ELSE <<q2 + (a \div c) + (r3 \div c), r3 % c>>
  IN  IF b = 0 THEN <<0, 0>> ELSE double[MulDivMod(a, b \div 2, c)]

\* a * b / c rounded to the nearest integer.
MulDiv(a, b, c) ==
  LET nearest[x \in Int \X Int \X Int] ==
        LET h == MulDivMod(x[1], x[2], x[3])
        IN  IF 2 * h[2] >= x[3] THEN h[1] + 1 ELSE h[1]
  IN  nearest[<<a, b, c>>]

\* a * b / c rounded to the nearest integer, for small b and c
\* (0 <= a, 0 < c, b * c < 2^31).
ScaleBy(a, b, c) ==
  LET scaled[x \in Int] ==
        LET low == (x % c) * b
        IN  (x \div c) * b + low \div c + (IF 2 * (low % c) >= c THEN 1 ELSE 0)
  IN  scaled[a]

\* round(x, 2) and round(x, 6) of a money amount.
Round2(x) == RoundDiv(x, Scale \div 100) * (Scale \div 100)
Round6(x) == RoundDiv(x, Scale \div 1000000) * (Scale \div 1000000)

\* The two tolerances of the code: 0.01 and 1e-5 currency units.
Cent == Scale \div 100
Tolerance == Scale \div 100000

(***************************************************************************)
(* Calendar dates.                                                         *)
(***************************************************************************)
IsLeap(y) == (y % 4 = 0 /\ y % 100 # 0) \/ y % 400 = 0

DaysInMonth(y, m) ==
  IF m = 2 THEN (IF IsLeap(y) THEN 29 ELSE 28)
  ELSE IF m \in {4, 6, 9, 11} THEN 30 ELSE 31

Date(y, m, d) == [y |-> y, m |-> m, d |-> d]

\* The days of the year before the first day of a month.
DaysBeforeMonth(y, m) ==
  <<0, 31, 59, 90, 120, 151, 181, 212, 243, 273, 304, 334>>[m]
    + (IF m > 2 /\ IsLeap(y) THEN 1 ELSE 0)

\* The proleptic ordinal of a date (date.toordinal()).
Ordinal(dt) ==
  LET p == dt.y - 1
  IN  365 * p + p \div 4 - p \div 100 + p \div 400
        + DaysBeforeMonth(dt.y, dt.m) + dt.d

DateLT(a, b) == Ordinal(a) < Ordinal(b)
DateLE(a, b) == Ordinal(a) <= Ordinal(b)

\* (a - b).days
DaysBetween(a, b) == Ordinal(a) - Ordinal(b)

\* The month advance without the carry into the next year.
AddMonth_SameYear(dt) ==
  LET nm == IF dt.m = 12 THEN 1 ELSE dt.m + 1
      dim == DaysInMonth(dt.y, nm)
  IN  Date(dt.y, nm, IF dt.d > dim THEN dim ELSE dt.d)

\* dt + relativedelta(months=+1): the next month, the day clamped to its length.
AddMonth(dt) ==
  LET ny == IF dt.m = 12 THEN dt.y + 1 ELSE dt.y
      nm == IF dt.m = 12 THEN 1 ELSE dt.m + 1
      dim == DaysInMonth(ny, nm)
  IN  Date(ny, nm, IF dt.d > dim THEN dim ELSE dt.d)

\* The comparison of the years alone.
SameMonth_YearOnly(a, b) == a.y = b.y

SameMonth(a, b) == a.y = b.y /\ a.m = b.m


(***************************************************************************)
(* The arguments of a call.                                                *)
(***************************************************************************)
LoanAmounts == {12 * Scale}
LoanYears == 1..MaxLoanYears
FirstPayDates == {Date(2023, 12, 31), Date(2024, 1, 15)}
InitialRates == {3, 6}
RepaymentTypes == {"equal_principal", "equal_payment", "unsupported"}

\* Rate-change dictionaries {date: rate}.
RateMaps ==
  { <<>>,
    (Date(2024, 3, 1) :> 12),
    (Date(2024, 2, 29) :> 3) @@ (Date(2024, 6, 1) :> 9) }

Prepayment(dt, amount) == [date |-> dt, amount |-> amount]

\* The prepayments a caller's list is made of: before, on and after the
\* payment day of their month, smaller and larger than the balance, one of
\* amount zero, one of negative amount and one before the first period.
PrepaymentChoices ==
  { Prepayment(Date(2024, 2, 10), (5 * Scale) \div 2),
    Prepayment(Date(2024, 2, 29), 3 * Scale),
    Prepayment(Date(2024, 3, 20), 3 * Scale),
    Prepayment(Date(2024, 1, 20), 0),
    Prepayment(Date(2024, 2, 20), -Scale),
    Prepayment(Date(2024, 2, 12), 15 * Scale),
    Prepayment(Date(2023, 11, 5), 3 * Scale) }

\* The lists of at most MaxPrepayments distinct prepayments, in date order
\* or in reverse date order.
PrepaymentLists ==
  UNION { { l \in [1..n -> PrepaymentChoices] :
              \/ \A i \in 1..(n - 1) : DateLT(l[i].date, l[i + 1].date)
              \/ \A i \in 1..(n - 1) : DateLT(l[i + 1].date, l[i].date) }
          : n \in 0..MaxPrepayments }

VARIABLES
  loan_amount,         \* argument: the principal of the loan
  loan_years,          \* argument: the term in years
  first_pay_date,      \* argument: the date of the first regular payment
  initial_rate,        \* argument: the initial annual rate in percent
  rate_changes,        \* argument: the rate-change dictionary
  caller_prepayments,  \* the caller's list object passed as prepayment_details
  input_prepayments,   \* the caller's data the list object was built from
  repayment_type,      \* argument: the repayment method
  prepayment_details,  \* the local name prepayment_details (rebound at line 99)
  current_date, remaining_principal, month, current_rate, schedule,
  pc,                  \* "call", "loop", "finalize", "done", "error"
  df,                  \* the returned ledger (<<>> while nothing was returned)
  call,                \* the number of the call in progress
  first_df             \* the ledger the first call returned

args == <<loan_amount, loan_years, first_pay_date, initial_rate, repayment_type,
          input_prepayments>>
locals == <<prepayment_details, current_date, remaining_principal, month,
            current_rate, schedule>>
vars == <<args, rate_changes, caller_prepayments, locals, pc, df, call, first_df>>

total_months == loan_years * 12

(***************************************************************************)
(* The regular payment of a period.                                        *)
(***************************************************************************)
\* (1 + rate/100/12) ** n, in Unit-ths.
RECURSIVE Growth(_, _)
Growth(rate, n) ==
  IF n = 0 THEN Unit ELSE ScaleBy(Growth(rate, n - 1), 1200 + rate, 1200)

\* loan * (r * (1 + r) ** n) / ((1 + r) ** n - 1) with r = rate / 100 / 12.
EqualMonthlyPayment(loan, rate, n) ==
  LET growth == Growth(rate, n)
  IN  MulDiv(growth, RoundDiv(loan * rate, 1200), growth - Unit)

\* balance * monthly_rate with monthly_rate = rate / 100 / 12.
MonthlyInterest(balance, rate) == RoundDiv(balance * rate, 1200)

\* (balance * rate / 100) / 365
DailyInterest(balance, rate) == RoundDiv(balance * rate, 36500)

\* original_monthly_principal = loan_amount / total_months
MonthlyPrincipal == RoundDiv(loan_amount, total_months)

\* The rate in force used for the equal_payment interest.
EqualPaymentRate_Current(rate) == rate

\* The rate the interest of a regular payment is computed with under
\* equal_payment: always the initial rate.
EqualPaymentRate(rate) == initial_rate

\* The regular payment that takes any other repayment type for
\* equal_principal.
RegularPayment_Lenient(balance, rate) ==
  IF repayment_type = "equal_payment" THEN
    LET r == EqualPaymentRate(rate)
        i == MonthlyInterest(balance, r)
    IN  [raised |-> FALSE, interest |-> i,
         principal |-> EqualMonthlyPayment(loan_amount, r, total_months) - i]
  ELSE [raised |-> FALSE, interest |-> MonthlyInterest(balance, rate),
        principal |-> MonthlyPrincipal]

\* The principal and the interest of the regular payment on a balance, or
\* the ValueError of an unsupported repayment type.
RegularPayment(balance, rate) ==
  IF repayment_type = "equal_principal" THEN
    [raised |-> FALSE, interest |-> MonthlyInterest(balance, rate),
     principal |-> MonthlyPrincipal]
  ELSE IF repayment_type = "equal_payment" THEN
    LET r == EqualPaymentRate(rate)
        i == MonthlyInterest(balance, r)
    IN  [raised |-> FALSE, interest |-> i,
         principal |-> EqualMonthlyPayment(loan_amount, r, total_months) - i]
  ELSE [raised |-> TRUE, interest |-> 0, principal |-> 0]

(***************************************************************************)
(* Sorting and the rate in force (lines 56 and 59-71).                     *)
(***************************************************************************)
\* list.sort(key=date): a stable insertion sort.  (The operands are bound
\* as values, so that no prefix is sorted more than once.)
RECURSIVE InsertByDate(_, _)
InsertByDate(sorted, item) ==
  CHOOSE result \in
    { IF head = <<>> THEN <<it>>
      ELSE IF DateLT(it.date, head[Len(head)].date)
           THEN Append(InsertByDate(SubSeq(head, 1, Len(head) - 1), it),
                       head[Len(head)])
           ELSE Append(head, it)
      : head \in {sorted}, it \in {item} } : TRUE

RECURSIVE SortByDate(_)
SortByDate(list) ==
  CHOOSE result \in
    { IF l = <<>> THEN <<>>
      ELSE InsertByDate(SortByDate(SubSeq(l, 1, Len(l) - 1)), l[Len(l)])
      : l \in {list} } : TRUE

\* sorted(rate_changes.keys())
RECURSIVE SortedDates(_)
SortedDates(dates) ==
  IF dates = {} THEN <<>>
  ELSE CHOOSE sorted \in
         { <<first>> \o SortedDates(dates \ {first})
           : first \in {a \in dates : \A b \in dates : DateLE(a, b)} } : TRUE

\* A change taking effect only after its date.
ChangeApplies_Strict(on, change_date) == DateLT(change_date, on)

\* Whether a change takes effect at the date of the period.
ChangeApplies(on, change_date) == DateLE(change_date, on)

\* The loop over the sorted change dates: every change that applies
\* overwrites current_rate, so the last one that applies wins.
RECURSIVE ResolveFrom(_, _, _, _)
ResolveFrom(rate, keys, i, on) ==
  IF i > Len(keys) THEN rate
  ELSE ResolveFrom(IF ChangeApplies(on, keys[i]) THEN rate_changes[keys[i]] ELSE rate,
                   keys, i + 1, on)

ResolveRate(rate, on) ==
  CHOOSE resolved \in
    { ResolveFrom(rate, keys, 1, on) : keys \in {SortedDates(DOMAIN rate_changes)} }
    : TRUE

(***************************************************************************)
(* The rows of the schedule.                                               *)
(***************************************************************************)
\* A row as the simulation appends it.  The keys total, cum_principal and
\* cum_interest exist only on a row that was edited afterwards (edited).
Row(period, dt, kind, principal, interest, remaining) ==
  [period |-> period, date |-> dt, kind |-> kind, principal |-> principal,
   interest |-> interest, remaining |-> remaining,
   edited |-> FALSE, total |-> 0, cum_principal |-> 0, cum_interest |-> 0]

\* The days elapsed from the prepayment to the regular payment, at least 1.
DaysInPeriod_Elapsed(prepay_date, on) ==
  IF DaysBetween(on, prepay_date) > 1 THEN DaysBetween(on, prepay_date) ELSE 1

\* days_in_period = max((prepay_date - current_date).days, 1)
DaysInPeriod(prepay_date, on) ==
  IF DaysBetween(prepay_date, on) > 1 THEN DaysBetween(prepay_date, on) ELSE 1

\* Lines 199-209: the edit of the regular row that precedes a prepayment row.
EditPreviousRow(prev, balance, amount, prepay_interest) ==
  LET principal == prev.principal - amount
  IN  [prev EXCEPT !.remaining = balance + amount,
                   !.principal = principal,
                   !.total = principal + prev.interest,
                   !.cum_principal = loan_amount - (balance + amount),
                   !.cum_interest = prepay_interest,
                   !.edited = TRUE]

\* The state of one pass of the for loop over the pending prepayments:
\* the balance, the rows, whether the period was processed, whether the
\* ValueError was raised.
PassState(balance, rows, processed, raised) ==
  [balance |-> balance, rows |-> rows, processed |-> processed, raised |-> raised]

\* Lines 127-155: the prepayment, then the regular payment.
PrepaymentFirst(st, prepay, pay, rate) ==
  LET prepay_interest ==
        DailyInterest(st.balance, rate) * DaysInPeriod(prepay.date, current_date)
      after_prepay == st.balance - prepay.amount
      after_regular == after_prepay - pay.principal
  IN  PassState(after_regular,
                st.rows \o
                  << Row(month, prepay.date, "Prepayment", prepay.amount,
                         prepay_interest, after_prepay),
                     Row(month, current_date, "Regular", pay.principal,
                         pay.interest, after_regular) >>,
                TRUE, FALSE)

\* The regular payment, then the prepayment, the running balance left as
\* the regular payment made it.
RegularFirst_BalanceKept(st, prepay, pay, rate) ==
  LET after_regular == st.balance - pay.principal
      prepay_interest ==
        DailyInterest(after_regular, rate) * DaysInPeriod(prepay.date, current_date)
      after_prepay == after_regular - prepay.amount
      regular == Row(month, current_date, "Regular", pay.principal, pay.interest,
                     after_regular)
      prepayment == Row(month, prepay.date, "Prepayment", prepay.amount,
                        prepay_interest, after_prepay)
  IN  PassState(after_regular,
                st.rows \o
                  << EditPreviousRow(regular, after_prepay, prepay.amount,
                                     prepay_interest),
                     prepayment >>,
                TRUE, FALSE)

\* Lines 168-213: the regular payment, then the prepayment, then the edit of
\* the regular row.
RegularFirst(st, prepay, pay, rate) ==
  LET after_regular == st.balance - pay.principal
      prepay_interest ==
        DailyInterest(after_regular, rate) * DaysInPeriod(prepay.date, current_date)
      after_prepay == after_regular - prepay.amount
      regular == Row(month, current_date, "Regular", pay.principal, pay.interest,
                     after_regular)
      prepayment == Row(month, prepay.date, "Prepayment", prepay.amount,
                        prepay_interest, after_prepay)
  IN  PassState(after_prepay,
                st.rows \o
                  << EditPreviousRow(regular, after_prepay, prepay.amount,
                                     prepay_interest),
                     prepayment >>,
                TRUE, FALSE)

\* Lines 229-254 and 259-288: the regular payment alone.
RegularOnly(st, rate) ==
  CHOOSE result \in
    { IF pay.raised THEN [st EXCEPT !.raised = TRUE]
      ELSE PassState(st.balance - pay.principal,
                     Append(st.rows,
                            Row(month, current_date, "Regular", pay.principal,
                                pay.interest, st.balance - pay.principal)),
                     TRUE, FALSE)
      : pay \in {RegularPayment(st.balance, rate)} } : TRUE

\* A prepayment on the day of the regular payment taken as coming first.
PrepaymentComesFirst_OnTheDay(prepay_date, on) == DateLE(prepay_date, on)

\* Whether the prepayment comes before the regular payment of the period.
PrepaymentComesFirst(prepay_date, on) == DateLT(prepay_date, on)

\* Lines 101-254: the body of the for loop for one pending prepayment.
ForBody(st, prepay, rate) ==
  IF SameMonth(current_date, prepay.date) THEN
    IF st.processed THEN st
    ELSE IF prepay.amount > 0 /\ st.balance > 0 THEN
      CHOOSE result \in
        { IF pay.raised THEN [st EXCEPT !.raised = TRUE]
          ELSE IF PrepaymentComesFirst(prepay.date, current_date)
               THEN PrepaymentFirst(st, prepay, pay, rate)
               ELSE RegularFirst(st, prepay, pay, rate)
          : pay \in {RegularPayment(st.balance, rate)} } : TRUE
    ELSE st
  ELSE IF st.processed THEN st
       ELSE RegularOnly(st, rate)

\* Line 100: the for loop, left at once by the ValueError.
RECURSIVE ForLoop(_, _, _, _)
ForLoop(st, pending, i, rate) ==
  CHOOSE result \in
    { IF i > Len(pending) \/ s.raised THEN s
      ELSE ForLoop(ForBody(s, pending[i], rate), pending, i + 1, rate)
      : s \in {st} } : TRUE

\* Line 99: the prepayments not before the first day of the period's month.
StillPending(prepay, on) == DateLE(Date(on.y, on.m, 1), prepay.date)

SelectPending(list, on) ==
  LET keep(prepay) == StillPending(prepay, on)
  IN  SelectSeq(list, keep)

\* Lines 59-288: one pass of the while loop up to the balance check.
Period(rate, pending) ==
  CHOOSE result \in
    { IF pending = <<>> /\ ~st.processed THEN RegularOnly(st, rate) ELSE st
      : st \in {ForLoop(PassState(remaining_principal, schedule, FALSE, FALSE),
                        pending, 1, rate)} } : TRUE

\* Line 291: a balance of at most 0.01 counts as repaid.
Snap(balance) == IF balance <= Cent THEN 0 ELSE balance

(***************************************************************************)
(* Finalization (lines 302-350).                                           *)
(***************************************************************************)
\* Line 315: last_row[principal] -= adjustment, the adjustment being the
\* remaining balance the last row recorded.
AdjustedPrincipal(principal, adjustment) == principal - adjustment

\* Lines 312-318: the correction of the last row.
AdjustLast(rows) ==
  LET n == Len(rows)
  IN  IF n > 0 /\ Abs(rows[n].remaining) > Tolerance
      THEN LET principal == AdjustedPrincipal(rows[n].principal, rows[n].remaining)
           IN  [rows EXCEPT ![n] = [@ EXCEPT !.principal = principal,
                                             !.remaining = 0,
                                             !.cum_principal = loan_amount,
                                             !.total = principal + rows[n].interest,
                                             !.edited = TRUE]]
      ELSE rows

\* cumsum() of the principal and of the interest column up to row i.
RECURSIVE CumPrincipal(_, _)
CumPrincipal(rows, i) ==
  IF i = 0 THEN 0 ELSE CumPrincipal(rows, i - 1) + rows[i].principal

RECURSIVE CumInterest(_, _)
CumInterest(rows, i) ==
  IF i = 0 THEN 0 ELSE CumInterest(rows, i - 1) + rows[i].interest

\* Line 336: the remaining balance of a row of the ledger is recomputed
\* from the cumulative principal.
LedgerRemaining(cum_principal) == Round6(loan_amount - cum_principal)

\* Lines 320-347: the returned table, its columns recomputed and rounded.
Ledger(rows) ==
  CHOOSE table \in
    { [i \in 1..Len(r) |->
         LET cum_principal == Round6(CumPrincipal(r, i))
         IN  [period |-> r[i].period, date |-> r[i].date, kind |-> r[i].kind,
              principal |-> Round2(r[i].principal),
              interest |-> Round2(r[i].interest),
              total |-> Round2(r[i].principal + r[i].interest),
              remaining |-> Round2(LedgerRemaining(cum_principal)),
              cum_principal |-> Round2(cum_principal),
              cum_interest |-> Round2(Round6(CumInterest(r, i)))]]
      : r \in {rows} } : TRUE

(***************************************************************************)
(* The call as a state machine.                                            *)
(***************************************************************************)
NoDate == Date(1, 1, 1)

Init ==
  /\ loan_amount \in LoanAmounts
  /\ loan_years \in LoanYears
  /\ first_pay_date \in FirstPayDates
  /\ initial_rate \in InitialRates
  /\ rate_changes \in RateMaps
  /\ caller_prepayments \in PrepaymentLists
  /\ input_prepayments = caller_prepayments
  /\ repayment_type \in RepaymentTypes
  /\ prepayment_details = <<>>
  /\ current_date = NoDate
  /\ remaining_principal = 0
  /\ month = 0
  /\ current_rate = 0
  /\ schedule = <<>>
  /\ pc = "call"
  /\ df = <<>>
  /\ call = 1
  /\ first_df = <<>>

\* The start of a call that does not bind schedule to a new list (the rows
\* kept in a list that outlives the call).
Begin_ScheduleKept ==
  /\ pc = "call"
  /\ current_date' = first_pay_date
  /\ remaining_principal' = loan_amount
  /\ schedule' = schedule
  /\ current_rate' = initial_rate
  /\ month' = 1
  /\ caller_prepayments' = SortByDate(caller_prepayments)
  /\ prepayment_details' = caller_prepayments'
  /\ pc' = "loop"
  /\ UNCHANGED <<args, rate_changes, df, call, first_df>>

\* Lines 32-56: the locals are initialised and the caller's list is sorted
\* in place.
Begin ==
  /\ pc = "call"
  /\ current_date' = first_pay_date
  /\ remaining_principal' = loan_amount
  /\ schedule' = <<>>
  /\ current_rate' = initial_rate
  /\ month' = 1
  /\ caller_prepayments' = SortByDate(caller_prepayments)
  /\ prepayment_details' = caller_prepayments'
  /\ pc' = "loop"
  /\ UNCHANGED <<args, rate_changes, df, call, first_df>>

\* The condition of the while loop without the bound of the term.
LoopCondition_NoTerm == remaining_principal > 0

\* Line 58: the condition of the while loop.
LoopCondition == remaining_principal > 0 /\ month <= total_months

\* The pass of the loop with the filter of line 99 applied to the caller's
\* list object (prepayment_details[:] = ...).
LoopPass_FilterInPlace ==
  /\ pc = "loop"
  /\ LoopCondition
  /\ \E rate \in {ResolveRate(current_rate, current_date)},
        pending \in {SelectPending(prepayment_details, current_date)} :
       \E st \in {Period(rate, pending)} : \E balance \in {Snap(st.balance)} :
         /\ ~st.raised
         /\ current_rate' = rate
         /\ prepayment_details' = pending
         /\ caller_prepayments' = pending
         /\ schedule' = st.rows
         /\ remaining_principal' = balance
         /\ IF balance <= 0
            THEN /\ pc' = "finalize"
                 /\ UNCHANGED <<current_date, month>>
            ELSE /\ current_date' = AddMonth(current_date)
                 /\ month' = month + 1
                 /\ pc' = "loop"
  /\ UNCHANGED <<args, rate_changes, df, call, first_df>>

\* Lines 58-300: one pass of the while loop that raises nothing.
LoopPass ==
  /\ pc = "loop"
  /\ LoopCondition
  /\ \E rate \in {ResolveRate(current_rate, current_date)},
        pending \in {SelectPending(prepayment_details, current_date)} :
       \E st \in {Period(rate, pending)} : \E balance \in {Snap(st.balance)} :
         /\ ~st.raised
         /\ current_rate' = rate
         /\ prepayment_details' = pending
         /\ schedule' = st.rows
         /\ remaining_principal' = balance
         /\ IF balance <= 0
            THEN /\ pc' = "finalize"
                 /\ UNCHANGED <<current_date, month>>
            ELSE /\ current_date' = AddMonth(current_date)
                 /\ month' = month + 1
                 /\ pc' = "loop"
  /\ UNCHANGED <<args, rate_changes, caller_prepayments, df, call, first_df>>

\* Lines 124, 238, 272: the pass of the loop that raises the ValueError;
\* the call ends without a result.
RaiseValueError ==
  /\ pc = "loop"
  /\ LoopCondition
  /\ \E rate \in {ResolveRate(current_rate, current_date)},
        pending \in {SelectPending(prepayment_details, current_date)} :
       /\ Period(rate, pending).raised
       /\ current_rate' = rate
       /\ prepayment_details' = pending
  /\ pc' = "error"
  /\ UNCHANGED <<args, rate_changes, caller_prepayments, current_date,
                 remaining_principal, month, schedule, df, call, first_df>>

\* Line 58: the loop condition fails.
LoopExit ==
  /\ pc = "loop"
  /\ ~LoopCondition
  /\ pc' = "finalize"
  /\ UNCHANGED <<args, rate_changes, caller_prepayments, locals, df, call, first_df>>

\* Lines 302-350: the ledger is finalized and returned (an empty schedule
\* has no date column, line 347 raises).
Finalize ==
  /\ pc = "finalize"
  /\ IF schedule = <<>>
     THEN pc' = "error" /\ df' = df
     ELSE pc' = "done" /\ df' = Ledger(AdjustLast(schedule))
  /\ UNCHANGED <<args, rate_changes, caller_prepayments, locals, call, first_df>>

\* The caller calls again with the same arguments and the same list object,
\* and any rate-change dictionary.  Nothing is erased between the calls:
\* the names of the function are bound anew by lines 38-56.
SecondCall ==
  /\ pc = "done"
  /\ call = 1
  /\ call' = 2
  /\ first_df' = df
  /\ rate_changes' \in RateMaps
  /\ df' = <<>>
  /\ pc' = "call"
  /\ UNCHANGED <<args, caller_prepayments, locals>>

\* The caller calls again with fresh copies of the same inputs: the same
\* arguments, the same rate-change dictionary, a new list of the same
\* prepayments in the same order.
SecondCallFresh ==
  /\ pc = "done"
  /\ call = 1
  /\ call' = 2
  /\ first_df' = df
  /\ caller_prepayments' = input_prepayments
  /\ df' = <<>>
  /\ pc' = "call"
  /\ UNCHANGED <<args, rate_changes, locals>>

Next == Begin \/ LoopPass \/ RaiseValueError \/ LoopExit \/ Finalize

Spec == Init /\ [][Next]_vars

\* The call runs to its end: nothing suspends it.
FairSpec == Spec /\ WF_vars(Next)

NextTwoCalls == Next \/ SecondCall

TwoCallSpec == Init /\ [][NextTwoCalls]_vars

NextFreshCalls == Next \/ SecondCallFresh

FreshCallSpec == Init /\ [][NextFreshCalls]_vars

(***************************************************************************)
(* Vocabulary of the properties.                                           *)
(***************************************************************************)
Returned == pc = "done"

\* A valid input: a positive principal and term, one of the two methods,
\* prepayments of positive amount.
ValidInput ==
  /\ loan_amount > 0
  /\ loan_years > 0
  /\ repayment_type \in {"equal_principal", "equal_payment"}
  /\ \A i \in 1..Len(caller_prepayments) : caller_prepayments[i].amount > 0

LastRow == df[Len(df)]

\* A period whose regular row is followed by the row of a prepayment applied
\* after it: rows i and i + 1 of a list of rows.
RegularThenPrepayment(rows, i) ==
  /\ i + 1 <= Len(rows)
  /\ rows[i].kind = "Regular"
  /\ rows[i + 1].kind = "Prepayment"
  /\ rows[i + 1].period = rows[i].period

\* The rate of the latest change in effect on a date, the initial rate when
\* there is none.
LatestRate(on) ==
  LET applicable == {c \in DOMAIN rate_changes : DateLE(c, on)}
  IN  IF applicable = {} THEN initial_rate
      ELSE rate_changes[CHOOSE c \in applicable : \A e \in applicable : DateLE(e, c)]

\* C1: for every valid input the returned ledger repays the loan exactly:
\* the cumulative principal of its last row is the loan principal and its
\* remaining balance is zero.
C1_PrincipalFullyRepaid ==
  (Returned /\ ValidInput) =>
    /\ LastRow.cum_principal = Round2(loan_amount)
    /\ LastRow.remaining = 0

\* C2: for every valid input every remaining balance of the returned ledger
\* is >= 0 and no balance is larger than the one of the row before it.
C2_BalanceNonNegativeNonIncreasing ==
  (Returned /\ ValidInput) =>
    /\ \A i \in 1..Len(df) : df[i].remaining >= 0
    /\ \A i \in 1..(Len(df) - 1) : df[i + 1].remaining <= df[i].remaining

\* The last row the simulation appended pays more principal than was
\* outstanding before it.
LastRowOverpays ==
  /\ schedule # <<>>
  /\ schedule[Len(schedule)].kind = "Regular"
  /\ schedule[Len(schedule)].remaining < -Tolerance
  /\ schedule[Len(schedule)].remaining + schedule[Len(schedule)].principal > 0

\* C3: when the last row would overpay the loan, the returned ledger shows
\* as its principal the balance that was outstanding before the row, and a
\* cumulative principal equal to the loan principal.
C3_LastRowClearsBalance ==
  (Returned /\ ValidInput /\ LastRowOverpays) =>
    LET last == schedule[Len(schedule)]
    IN  /\ LastRow.principal = Round2(last.remaining + last.principal)
        /\ LastRow.cum_principal = Round2(loan_amount)

\* C4: under equal_principal every Regular row of the returned ledger but
\* the last row has a principal of loan principal / term months.
C4_ConstantPrincipalShare ==
  (Returned /\ ValidInput /\ repayment_type = "equal_principal") =>
    \A i \in 1..(Len(df) - 1) :
      df[i].kind = "Regular" =>
        df[i].principal = Round2(RoundDiv(loan_amount, 12 * loan_years))

\* The regular payments of a ledger: period, principal, interest and total
\* payment of its Regular rows, in order.
RECURSIVE RegularPayments(_)
RegularPayments(ledger) ==
  IF ledger = <<>> THEN <<>>
  ELSE LET head == ledger[1]
           rest == RegularPayments(SubSeq(ledger, 2, Len(ledger)))
       IN  IF head.kind = "Regular"
           THEN << <<head.period, head.principal, head.interest, head.total>> >> \o rest
           ELSE rest

\* C5: under equal_payment two calls that differ only in the rate-change
\* dictionary return the same regular payments.
C5_RateTimelineIgnored ==
  (call = 2 /\ Returned /\ repayment_type = "equal_payment") =>
    RegularPayments(df) = RegularPayments(first_df)

\* The two calls ran under rate timelines that left different ledgers (the
\* interest of a prepayment row follows the rate in force).
C5_Witness ==
  /\ call = 2
  /\ Returned
  /\ repayment_type = "equal_payment"
  /\ current_rate # initial_rate
  /\ df # first_df
  /\ RegularPayments(df) # <<>>

\* The date of the regular payment of period k.
RECURSIVE PeriodDate(_)
PeriodDate(k) == IF k = 1 THEN first_pay_date ELSE AddMonth(PeriodDate(k - 1))

\* The prepayments of positive amount in the window of period k, as indexes
\* of the caller's (sorted) list.
InWindow(k) ==
  { i \in 1..Len(caller_prepayments) :
      /\ SameMonth(caller_prepayments[i].date, PeriodDate(k))
      /\ caller_prepayments[i].amount > 0 }

FirstInWindow(k) ==
  caller_prepayments[CHOOSE i \in InWindow(k) : \A j \in InWindow(k) : i <= j]

RowsOfPeriod(ledger, k) == { i \in 1..Len(ledger) : ledger[i].period = k }

\* C6: a period with an in-window prepayment has exactly two rows, the
\* Prepayment row first when its date is strictly before the period's date,
\* the Regular row first otherwise.
C6_TwoRowsInDateOrder ==
  Returned =>
    \A k \in 1..LastRow.period :
      InWindow(k) # {} =>
        \E i \in 1..(Len(df) - 1) :
          LET prepay == FirstInWindow(k)
              first == IF DateLT(prepay.date, PeriodDate(k)) THEN "Prepayment"
                       ELSE "Regular"
              regular == IF first = "Regular" THEN df[i] ELSE df[i + 1]
              prepayment == IF first = "Regular" THEN df[i + 1] ELSE df[i]
          IN  /\ RowsOfPeriod(df, k) = {i, i + 1}
              /\ regular.kind = "Regular"
              /\ regular.date = PeriodDate(k)
              /\ prepayment.kind = "Prepayment"
              /\ prepayment.date = prepay.date

\* A ledger with a prepayment on the very day of a regular payment and, in
\* another period, one before the day of the regular payment.
C6_Witness ==
  /\ Returned
  /\ \E i \in 1..(Len(df) - 1) :
       /\ RegularThenPrepayment(df, i)
       /\ df[i].date = df[i + 1].date
  /\ \E i \in 1..(Len(df) - 1) :
       /\ df[i].kind = "Prepayment"
       /\ df[i + 1].kind = "Regular"
       /\ df[i + 1].period = df[i].period
       /\ DateLT(df[i].date, df[i + 1].date)

\* The rate the interest of a regular payment of a date is computed with.
InterestRate(on) ==
  IF repayment_type = "equal_principal" THEN LatestRate(on) ELSE initial_rate

\* C7: after a period whose prepayment was applied after the regular
\* payment, the interest of the next period's Regular row is the monthly
\* interest on the balance left by the regular payment minus the prepayment.
C7_NextInterestOnReducedBalance ==
  \A i \in 1..Len(schedule) : \A n \in 1..Len(schedule) :
    ( /\ RegularThenPrepayment(schedule, i)
      /\ schedule[n].kind = "Regular"
      /\ schedule[n].period = schedule[i].period + 1 ) =>
        schedule[n].interest =
          RoundDiv((schedule[i].remaining - schedule[i + 1].principal)
                     * InterestRate(schedule[n].date), 1200)

\* A regular payment follows a period whose prepayment came after the regular
\* payment, and the balance it bears interest on is positive.
C7_Witness ==
  \E i \in 1..Len(schedule) : \E n \in 1..Len(schedule) :
    /\ RegularThenPrepayment(schedule, i)
    /\ schedule[n].kind = "Regular"
    /\ schedule[n].period = schedule[i].period + 1
    /\ schedule[n].interest > 0
    /\ schedule[i + 1].principal > 0

PeriodSkipped(k) ==
  LET pending == SelectPending(caller_prepayments, PeriodDate(k))
  IN  /\ pending # <<>>
      /\ \A i \in 1..Len(pending) :
           SameMonth(pending[i].date, PeriodDate(k)) /\ pending[i].amount <= 0

C9_Terminates ==
  /\ <>(pc \in {"done", "error"})
  /\ [][(pc = "loop" /\ pc' = "loop") => month' = month + 1]_vars
  /\ [][(pc = "loop" /\ pc' = "finalize" /\ LoopCondition) =>
          (remaining_principal' = 0 /\ month' = month)]_vars
  /\ [](pc = "loop" => (remaining_principal > Cent /\ month <= total_months + 1))
  /\ [](\A i \in 1..Len(schedule) : schedule[i].period \in 1..total_months)

\* The loop ended because the period passed the term, the balance still
\* positive.
C9_Witness ==
  /\ Returned
  /\ month = total_months + 1
  /\ remaining_principal > 0

\* C10: the dates of the rows of the returned ledger never decrease.
C10_DatesNonDecreasing ==
  Returned => \A i \in 1..(Len(df) - 1) : DateLE(df[i].date, df[i + 1].date)

\* A ledger with a prepayment row dated before the regular row of its period
\* and with a prepayment row dated after the regular row of its period.
C10_Witness ==
  /\ Returned
  /\ \E i \in 1..(Len(df) - 1) :
       /\ df[i].kind = "Prepayment"
       /\ df[i + 1].period = df[i].period
       /\ DateLT(df[i].date, df[i + 1].date)
  /\ \E i \in 1..(Len(df) - 2) :
       /\ RegularThenPrepayment(df, i)
       /\ DateLT(df[i].date, df[i + 1].date)
       /\ DateLT(df[i + 1].date, df[i + 2].date)

\* C11: two calls with identical, freshly copied inputs return identical
\* ledgers, row for row.
C11_FreshCallsAgree ==
  (call = 2 /\ Returned) => df = first_df

\* The second call returned a ledger with prepayment rows, from a list the
\* caller had not sorted.
C11_Witness ==
  /\ call = 2
  /\ Returned
  /\ input_prepayments # SortByDate(input_prepayments)
  /\ \E i \in 1..Len(df) : df[i].kind = "Prepayment"

\* A period whose prepayment was applied before its regular payment: rows i
\* and i + 1 of a list of rows.
PrepaymentThenRegular(rows, i) ==
  /\ i + 1 <= Len(rows)
  /\ rows[i].kind = "Prepayment"
  /\ rows[i + 1].kind = "Regular"
  /\ rows[i + 1].period = rows[i].period

\* C12: when the prepayment is applied before the regular payment, the
\* Regular row of the period bears the monthly interest on the balance
\* reduced by the prepayment, and under equal_payment its principal is the
\* annuity payment minus that interest.
C12_RegularOnReducedBalance ==
  \A i \in 1..Len(schedule) :
    PrepaymentThenRegular(schedule, i) =>
      LET reduced == schedule[i].remaining
          interest == RoundDiv(reduced * InterestRate(schedule[i + 1].date), 1200)
      IN  /\ schedule[i + 1].interest = interest
          /\ repayment_type = "equal_payment" =>
               schedule[i + 1].principal =
                 EqualMonthlyPayment(loan_amount, initial_rate, total_months) - interest


\* C13: when the prepayment is applied after the regular payment, the
\* interest of its row is the daily interest on the balance left by the
\* regular payment times the days from the period's date to the
\* prepayment's date, zero when the two dates are equal.
C13_InterestForElapsedDays ==
  \A i \in 1..Len(schedule) :
    RegularThenPrepayment(schedule, i) =>
      schedule[i + 1].interest =
        DailyInterest(schedule[i].remaining, LatestRate(schedule[i].date))
          * DaysBetween(schedule[i + 1].date, schedule[i].date)


\* The rows of a ledger that record the prepayment of a date.
PrepaymentRows(ledger, on) ==
  { n \in 1..Len(ledger) : ledger[n].kind = "Prepayment" /\ ledger[n].date = on }

\* C14: of several prepayments of the same month the first in date order is
\* the one applied in the period of that month, and each of the others is
\* applied by a later period: when the ledger goes on after that period,
\* every one of them has its Prepayment row.
C14_LaterPrepaymentsApplied ==
  Returned =>
    \A k \in 1..(LastRow.period - 1) :
      \A j \in InWindow(k) :
        IF caller_prepayments[j] = FirstInWindow(k)
        THEN \E n \in PrepaymentRows(df, caller_prepayments[j].date) : df[n].period = k
        ELSE \E n \in PrepaymentRows(df, caller_prepayments[j].date) : df[n].period > k


\* C15: a Prepayment row of period k records a prepayment of the caller's
\* list dated in the year and month of the date of period k, a period has at
\* most one Prepayment row, and no prepayment has more than one row.
C15_SingleUseInWindow ==
  \A n \in 1..Len(schedule) :
    schedule[n].kind = "Prepayment" =>
      /\ schedule[n].date.y = PeriodDate(schedule[n].period).y
      /\ schedule[n].date.m = PeriodDate(schedule[n].period).m
      /\ \E j \in 1..Len(caller_prepayments) :
           /\ caller_prepayments[j].date = schedule[n].date
           /\ caller_prepayments[j].amount = schedule[n].principal
      /\ \A o \in 1..Len(schedule) :
           (o # n /\ schedule[o].kind = "Prepayment") =>
             /\ schedule[o].period # schedule[n].period
             /\ schedule[o].date # schedule[n].date

\* A prepayment was applied in a period whose month holds two prepayments of
\* the caller's list.
C15_Witness ==
  /\ Returned
  /\ \E n \in 1..Len(schedule) :
       /\ schedule[n].kind = "Prepayment"
       /\ Cardinality(InWindow(schedule[n].period)) > 1


\* C16: every row of the returned ledger shows as remaining balance the
\* balance the simulation held after the row (for a regular payment that
\* precedes its period's prepayment: the balance after the regular principal
\* alone), the last row shows zero.
C16_LedgerShowsRunningBalance ==
  Returned =>
    \A i \in 1..Len(df) :
      df[i].remaining = IF i = Len(df) THEN 0 ELSE Round2(schedule[i].remaining)


\* The number of the period of the last pass of the loop (0 before the first).
LastPass ==
  IF pc = "loop" \/ (pc \in {"finalize", "done"} /\ month > total_months)
  THEN month - 1 ELSE month

\* The balance before row n of the schedule.
BalanceBefore(n) == IF n = 1 THEN loan_amount ELSE schedule[n - 1].remaining

\* C17: the rate applied in a period is the rate of the latest change dated
\* on or before the period's date, the initial rate when there is none;
\* under equal_principal the Regular row of a period without prepayment row
\* bears the balance before it times that rate / 100 / 12; the rate-change
\* dictionary is never modified.
C17_LatestRateApplies ==
  /\ [](pc # "call" =>
          current_rate = IF LastPass = 0 THEN initial_rate
                         ELSE LatestRate(PeriodDate(LastPass)))
  /\ [](repayment_type = "equal_principal" =>
          \A n \in 1..Len(schedule) :
            ( /\ schedule[n].kind = "Regular"
              /\ \A o \in 1..Len(schedule) :
                   schedule[o].period = schedule[n].period =>
                     schedule[o].kind = "Regular" ) =>
              schedule[n].interest =
                RoundDiv(BalanceBefore(n) * LatestRate(schedule[n].date), 1200))
  /\ [][rate_changes' = rate_changes]_vars

\* Two rate changes took effect in turn during an equal_principal loan, one
\* of them on the very date of a period.
C17_Witness ==
  /\ Returned
  /\ repayment_type = "equal_principal"
  /\ initial_rate = 6
  /\ current_rate = 9
  /\ \E n \in 1..Len(schedule) : schedule[n].date \in DOMAIN rate_changes


\* C18: the regular payment of every period falls on the day of the month
\* of the first payment, or on the last day of a month that has no such day.
C18_DayOfMonthKept ==
  \A n \in 1..Len(schedule) :
    schedule[n].kind = "Regular" =>
      LET last == DaysInMonth(schedule[n].date.y, schedule[n].date.m)
      IN  schedule[n].date.d =
            IF first_pay_date.d > last THEN last ELSE first_pay_date.d


\* C19: when the prepayment is applied before the regular payment, the
\* interest of its row is one day's interest on the balance before the
\* prepayment at the rate in force, whatever the days between the two dates.
C19_OneDayOfInterest ==
  \A i \in 1..Len(schedule) :
    PrepaymentThenRegular(schedule, i) =>
      schedule[i].interest =
        DailyInterest(schedule[i].remaining + schedule[i].principal,
                      LatestRate(schedule[i + 1].date))

\* A prepayment applied several days before the regular payment of its
\* period, with interest, at a rate that had changed.
C19_Witness ==
  \E i \in 1..Len(schedule) :
    /\ PrepaymentThenRegular(schedule, i)
    /\ DaysBetween(schedule[i + 1].date, schedule[i].date) > 1
    /\ schedule[i].interest > 0
    /\ LatestRate(schedule[i + 1].date) # initial_rate


\* C20: the caller's list is filtered in place: after the call it holds the
\* prepayments the function still held as pending, and no others.
C20_ListFilteredInPlace ==
  Returned => caller_prepayments = prepayment_details

\* C20 amended: the caller's list is sorted in place by date and never
\* filtered: from the start of the first call on it holds the caller's
\* prepayments, all of them, in date order, and the second call with the
\* same list object starts with all of them pending.
C20_ListSortedNotFiltered ==
  /\ (call = 1 /\ pc = "call") => caller_prepayments = input_prepayments
  /\ ~(call = 1 /\ pc = "call") => caller_prepayments = SortByDate(input_prepayments)
  /\ (call = 2 /\ pc = "loop" /\ month = 1) =>
       prepayment_details = SortByDate(input_prepayments)

\* The second call returned, its pending list shorter than the caller's
\* list, which the caller had not sorted.
C20_Witness ==
  /\ call = 2
  /\ Returned
  /\ Len(prepayment_details) < Len(caller_prepayments)
  /\ input_prepayments # SortByDate(input_prepayments)


\* C21: no row is appended once the running balance is zero or less: every
\* row but the first follows a row that left a positive balance.
C21_NoRowAfterPayoff ==
  \A n \in 2..Len(schedule) : schedule[n - 1].remaining > 0

\* The Regular rows of a period in a ledger.
RegularRowsOfPeriod(ledger, k) ==
  { n \in 1..Len(ledger) : ledger[n].kind = "Regular" /\ ledger[n].period = k }

\* C22: every period from 1 to the last period of the returned ledger has
\* exactly one Regular row, also the period of the month of a prepayment of
\* zero or negative amount (such a prepayment is ignored, the ledger is the
\* one generated without it).
C22_OneRegularRowPerPeriod ==
  Returned =>
    \A k \in 1..LastRow.period : Cardinality(RegularRowsOfPeriod(df, k)) = 1

=============================================================================
